---- MODULE Spec2Model ----
(***************************************************************************)
(* A model of the lyrics subsystem of src/server.js: the LRC parser, the   *)
(* title/artist normalizer, the provider adapters, the resolution pipeline *)
(* and the GET /api/lyricstify/lyrics handler.                             *)
(*                                                                         *)
(* Text is modelled as a sequence of characters.  A character is a record  *)
(* [k, m, s, d, f]: k names the character ("a", "sp" for a blank, "nl" for *)
(* a line break, "-" for the ASCII hyphen, "en"/"em" for the two dashes,   *)
(* "R" for a run of RunLen letters, "meta" for one of the metadata         *)
(* prefixes "[ar:", "[ti:", "[al:", "[by:", "[offset:").  k = "tag"  is a  *)
(* whole time tag "[mm:ss]", "[mm:ss.cc]" or "[mm:ss.ccc]" with minutes m, *)
(* seconds s, d fraction digits (0, 2 or 3) and fraction value f.          *)
(***************************************************************************)
EXTENDS Integers, Sequences, FiniteSets, TLC

VARIABLES
  lrcPc,        \* LRC parser run: "idle", "input", "parsed" or "served"
  lrcInput,      \* the raw text handed to parseLRCLyrics
  lrcLines,     \* the lines parseLRCLyrics returned
  lrcFallback,  \* whether the untimed fallback branch (line 1977) ran
  lrcSync,      \* the syncType the parsed lines are served under
  lrcOut,       \* the lines of the response's lrc made of the parsed lines
  dashPc,       \* normalizer run: "idle", "input" or "parsed"
  dashInput,    \* the string handed to parseTrackTitleWithDash
  dashResult,   \* what parseTrackTitleWithDash returned
  keyPresent,   \* MUSIXMATCH_API_KEY is set and not blank (line 2008)
  reqTrackId,   \* req.query.trackId is given
  reqTitle,     \* req.query.title ("" when not given)
  reqArtist,    \* req.query.artist ("" when not given)
  title,        \* the handler's title
  artist,       \* the handler's artist
  given,        \* title and artist as the caller or the track lookup gave them
  splits,       \* how many calls of parseTrackTitleWithDash found a split
  pc,           \* the call the request awaits, "start", "done" or "idle"
  sources,      \* the sources getAllLyricsSources called, in order
  variants,     \* the variants getMusixmatchLyrics called, in order
  variantReturned, \* what each called variant returned, in order
  returned,     \* what each called source returned, in order
  lyricsData,   \* what getAllLyricsSources returned
  mxTrack,      \* has_lyrics and has_subtitles of the track the official search found
  inFlight,     \* the external calls issued and not yet answered
  lastReply,    \* the call that answered last and the kind of its answer
  syncedLyrics, \* bestMatch.syncedLyrics, when the last answer was LRCLIB's hit
  response,     \* the HTTP response, status 0 while none is sent
  handlers,     \* two invocations of the handler at once: the locals of each
  alone,        \* what each of the two would hold had it run with no other
  playlists,    \* the rows of table playlists: [id, user_code]
  playlistTracks, \* the rows of table playlist_tracks, in rowid order
  lastPlaylistId, \* the AUTOINCREMENT counter of playlists.id
  plRequest,    \* the playlist request handled last
  plAnswer      \* the status and the body of the answer to that request

lrcVars == <<lrcPc, lrcInput, lrcLines, lrcFallback, lrcSync, lrcOut>>

dashVars == <<dashPc, dashInput, dashResult>>

reqVars ==
  <<keyPresent, reqTrackId, reqTitle, reqArtist, title, artist, given, splits, pc,
    sources, variants, variantReturned, returned, lyricsData, mxTrack, inFlight, lastReply,
    syncedLyrics, response>>

pairVars == <<handlers, alone>>

plVars ==
  <<playlists, playlistTracks, lastPlaylistId, plRequest, plAnswer>>

vars == <<lrcVars, dashVars, reqVars, pairVars, plVars>>

----------------------------------------------------------------------------
(* Bounds of the model *)

MaxLrcLen == 5

MaxTitleChars == 6

MaxReplyLen == 2

MaxWebItems == 2

RunLen == 99

----------------------------------------------------------------------------
(* Characters and strings *)

Ch(c) == [k |-> c, m |-> 0, s |-> 0, d |-> 0, f |-> 0]

Tag(mm, ss, digits, frac) == [k |-> "tag", m |-> mm, s |-> ss, d |-> digits, f |-> frac]

IsTag(t) == t.k = "tag"

IsWs(t) == t.k \in {"sp", "nl"}

SetMin(S) == CHOOSE x \in S : \A y \in S : x <= y

SetMax(S) == CHOOSE x \in S : \A y \in S : x >= y

\* String.prototype.trim
Trim(str) ==
  LET solid == {i \in 1..Len(str) : ~IsWs(str[i])}
  IN IF solid = {} THEN <<>> ELSE SubSeq(str, SetMin(solid), SetMax(solid))

\* String.prototype.length: a run character counts for RunLen letters
CharLen(t) == IF t.k = "R" THEN RunLen ELSE 1

RECURSIVE StrLen(_)
StrLen(str) == IF str = <<>> THEN 0 ELSE CharLen(Head(str)) + StrLen(Tail(str))

\* String.prototype.split('\n')
RECURSIVE SplitLines(_)
SplitLines(str) ==
  LET nls == {i \in 1..Len(str) : str[i].k = "nl"}
  IN IF nls = {} THEN <<str>>
     ELSE <<SubSeq(str, 1, SetMin(nls) - 1)>>
            \o SplitLines(SubSeq(str, SetMin(nls) + 1, Len(str)))

----------------------------------------------------------------------------
(* parseLRCLyrics, src/server.js 1937-1998 *)

\* lines 1949-1968: minutes, seconds and the fraction to milliseconds
TagStartTimeMs(t) ==
  LET base == (t.m * 60 + t.s) * 1000
      milliseconds == IF t.d = 0 THEN 0 ELSE t.f
  IN IF milliseconds > 0
       THEN IF milliseconds < 100 THEN base + milliseconds * 10
                                  ELSE base + milliseconds
       ELSE base

\* lines 1945-1974: the exec loop of /\[(\d{2}):(\d{2})(?:\.(\d{2,3}))?\](.+)/g
\* from position pos: the leftmost tag followed by at least one character of
\* its line matches, (.+) takes the rest of the line, the next search starts
\* behind it.
RECURSIVE ScanLRC(_, _)
ScanLRC(text, pos) ==
  LET starts == {i \in pos..(Len(text) - 1) : IsTag(text[i]) /\ text[i + 1].k # "nl"}
  IN IF starts = {} THEN <<>>
     ELSE LET i == SetMin(starts)
              nls == {j \in (i + 1)..Len(text) : text[j].k = "nl"}
              last == IF nls = {} THEN Len(text) ELSE SetMin(nls) - 1
              words == Trim(SubSeq(text, i + 1, last))
              rest == ScanLRC(text, last + 1)
          IN IF words = <<>> THEN rest
             ELSE <<[words |-> words, startTimeMs |-> TagStartTimeMs(text[i])]>> \o rest

IsMetaLineNever(line) == FALSE

\* line 1980: /^\[(ar|ti|al|by|offset):/i on the (untrimmed) line
IsMetaLine(line) == line # <<>> /\ line[1].k = "meta"

\* line 1984: every time tag removed, then trimmed
CleanLine(line) == Trim(SelectSeq(line, LAMBDA t : ~IsTag(t)))

\* lines 1978-1991: the untimed fallback
FallbackLines(text) ==
  LET keep(line) == Trim(line) # <<>> /\ ~IsMetaLine(line)
      textLines == SelectSeq(SplitLines(text), keep)
      cleaned == [i \in 1..Len(textLines) |-> CleanLine(textLines[i])]
      solid == SelectSeq(cleaned, LAMBDA w : w # <<>>)
  IN [i \in 1..Len(solid) |-> [words |-> solid[i], startTimeMs |-> 0]]

\* line 1995: Array.prototype.sort with (a, b) => a.startTimeMs - b.startTimeMs,
\* a stable sort: each line is inserted behind the lines not later than it.
RECURSIVE SortLines(_)
SortLines(lines) ==
  IF lines = <<>> THEN <<>>
  ELSE LET x == lines[Len(lines)]
           front == SortLines(SubSeq(lines, 1, Len(lines) - 1))
           before == SelectSeq(front, LAMBDA l : l.startTimeMs <= x.startTimeMs)
           after == SelectSeq(front, LAMBDA l : l.startTimeMs > x.startTimeMs)
       IN before \o <<x>> \o after

\* line 1977: the fallback runs when the loop pushed no line
TakesFallback(text) == ScanLRC(text, 1) = <<>>

parseLRCLyrics(lrcText) ==
  IF lrcText = <<>> THEN <<>>
  ELSE SortLines(IF TakesFallback(lrcText) THEN FallbackLines(lrcText)
                                           ELSE ScanLRC(lrcText, 1))

----------------------------------------------------------------------------
(* parseTrackTitleWithDash, src/server.js 2393-2425 *)

MaxArtistLength == 100

MaxTitleLength == 200

\* the function's null
NoSplit == [found |-> FALSE, artist |-> <<>>, title |-> <<>>]

\* line 2401: replace(/[–—]/g, '-')
NormalizeDashes(str) ==
  [i \in 1..Len(str) |-> IF str[i].k \in {"en", "em"} THEN Ch("-") ELSE str[i]]

\* the first character behind position k that \s does not match, 0 if none
FirstSolidAfter(str, k) ==
  LET solid == {j \in (k + 1)..Len(str) : ~IsWs(str[j])}
  IN IF solid = {} THEN 0 ELSE SetMin(solid)

\* a greedy (.+): the cut before the last hyphen
DashCutsGreedy(str) ==
  LET cuts == {k \in 1..Len(str) :
                 LET h == FirstSolidAfter(str, k)
                 IN h > 0 /\ str[h].k = "-" /\ h < Len(str)}
  IN IF cuts = {} THEN {} ELSE {SetMax(cuts)}

\* line 2407: the lengths k that (.+?) of /^(.+?)\s*-\s*(.+)$/ can take: behind
\* the first k characters come blanks, a hyphen and at least one character
DashCuts(str) ==
  {k \in 1..Len(str) :
     LET h == FirstSolidAfter(str, k)
     IN h > 0 /\ str[h].k = "-" /\ h < Len(str)}

ArtistShortEnough(artistPart) == StrLen(artistPart) < MaxArtistLength

\* the title limit taken inclusively
TitleShortEnoughInclusive(titlePart) == StrLen(titlePart) <= MaxTitleLength

TitleShortEnough(titlePart) == StrLen(titlePart) < MaxTitleLength

parseTrackTitleWithDash(fullTitle) ==
  IF fullTitle = <<>> THEN NoSplit
  ELSE LET normalizedTitle == Trim(NormalizeDashes(fullTitle))
           cuts == DashCuts(normalizedTitle)
       IN IF cuts = {} THEN NoSplit
          ELSE LET k == SetMin(cuts)
                   h == FirstSolidAfter(normalizedTitle, k)
                   artistPart == Trim(SubSeq(normalizedTitle, 1, k))
                   titlePart == Trim(SubSeq(normalizedTitle, h + 1, Len(normalizedTitle)))
               IN IF /\ artistPart # <<>>
                     /\ titlePart # <<>>
                     /\ ArtistShortEnough(artistPart)
                     /\ TitleShortEnough(titlePart)
                    THEN [found |-> TRUE, artist |-> artistPart, title |-> titlePart]
                    ELSE NoSplit

----------------------------------------------------------------------------
(* Results of the provider adapters *)

\* an adapter's null
NoResult == [ok |-> FALSE, lines |-> <<>>, syncType |-> "", source |-> ""]

Result(lines, syncType, source) ==
  [ok |-> TRUE, lines |-> lines, syncType |-> syncType, source |-> source]

\* lines.some(l => l.startTimeMs && l.startTimeMs > 0), lines 1542, 1766, 1916
HasTimestamps(lines) == \E i \in 1..Len(lines) : lines[i].startTimeMs > 0

SyncTypeOf(lines) == IF HasTimestamps(lines) THEN "LINE_SYNCED" ELSE "UNSYNCED"

\* a value that is not a string where a string is expected
NonString == <<Ch("nonstr")>>

IsString(w) == w # NonString

----------------------------------------------------------------------------
(* getLRCLibLyrics, src/server.js 1622-1690 *)

\* lines 1642-1660 and the catch of 1686: which replies end in null
LRCLibAbsent(reply) ==
  \/ reply.kind \in {"throw", "status", "garbage", "empty"}
  \/ reply.synced = <<>> /\ reply.plain = <<>>

\* lines 1665-1685
LRCLibResult(reply) ==
  IF LRCLibAbsent(reply) THEN NoResult
  ELSE LET lyricsText == IF reply.synced # <<>> THEN reply.synced ELSE reply.plain
           isSynced == reply.synced # <<>>
           lines == parseLRCLyrics(lyricsText)
       IN IF lines = <<>> THEN NoResult
          ELSE Result(lines,
                      IF isSynced THEN "LINE_SYNCED" ELSE "UNSYNCED",
                      IF isSynced THEN "LRCLIB API (synced)" ELSE "LRCLIB API (plain)")

----------------------------------------------------------------------------
(* getNetEaseLyrics 1695-1782 and getQQMusicLyrics 1787-1932 *)

\* lines 1716-1727, 1827-1838: the search found a song to fetch the text of
SearchFoundSong(reply) == reply.kind = "hit"

\* lines 1745-1777: the text fetched by song id
NetEaseResult(reply) ==
  IF reply.kind # "hit" \/ reply.text = <<>> THEN NoResult
  ELSE LET lines == parseLRCLyrics(reply.text)
       IN IF lines = <<>> THEN NoResult
          ELSE Result(lines, SyncTypeOf(lines),
                      IF HasTimestamps(lines) THEN "NetEase Cloud Music (synced)"
                                              ELSE "NetEase Cloud Music (plain)")

\* lines 1872-1927: reply.text is the text behind the JSONP wrapper and the
\* base64 coding; a wrapper or coding that cannot be undone is "garbage"
QQMusicResult(reply) ==
  IF reply.kind # "hit" \/ reply.text = <<>> THEN NoResult
  ELSE LET lines == parseLRCLyrics(reply.text)
       IN IF lines = <<>> THEN NoResult
          ELSE Result(lines, SyncTypeOf(lines),
                      IF HasTimestamps(lines) THEN "QQ Music (synced)"
                                              ELSE "QQ Music (plain)")

----------------------------------------------------------------------------
(* getMusixmatchLyricsOfficial 2068-2220, parseMusixmatchSubtitle 2226-2229 *)

parseMusixmatchSubtitle(subtitleText) == parseLRCLyrics(subtitleText)

\* lines 2138-2154 (official) and 1411-1426 (desktop): a subtitle reply that
\* carries a subtitle is returned as it parses, LINE_SYNCED
SubtitleResult(reply, source) ==
  IF reply.kind = "hit"
    THEN Result(parseMusixmatchSubtitle(reply.text), "LINE_SYNCED", source)
    ELSE NoResult

\* the lyrics body taken as it is
KeepDisclaimer(lyricsText) == lyricsText

\* lines 2179-2181: the text before the commercial-use notice, trimmed
StripDisclaimer(lyricsText) ==
  LET marks == {i \in 1..Len(lyricsText) : lyricsText[i].k = "disc"}
  IN IF marks = {} THEN lyricsText
     ELSE Trim(SubSeq(lyricsText, 1, SetMin(marks) - 1))

\* lines 2172-2201: the plain lyrics, one untimed line per non-blank line
PlainLyricsResult(reply) ==
  IF reply.kind # "hit" THEN NoResult
  ELSE LET lyricsText == StripDisclaimer(reply.text)
           lines == SelectSeq(SplitLines(lyricsText), LAMBDA l : Trim(l) # <<>>)
       IN Result([i \in 1..Len(lines) |-> [words |-> lines[i], startTimeMs |-> 0]],
                 "UNSYNCED", "Musixmatch API (lyrics)")

----------------------------------------------------------------------------
(* getMusixmatchLyricsWebScraping 1444-1596, parseMusixmatchWebLyrics 1601-1616 *)

MinScrapedLength == 50

\* lyricsBody is [type, text, items]: a string, an array of timed items or
\* anything else
parseMusixmatchWebLyrics(lyricsBody) ==
  IF lyricsBody.type = "string"
    THEN LET lines == SelectSeq(SplitLines(lyricsBody.text), LAMBDA l : Trim(l) # <<>>)
         IN [i \in 1..Len(lines) |-> [words |-> Trim(lines[i]), startTimeMs |-> 0]]
  ELSE IF lyricsBody.type = "array"
    THEN SelectSeq([i \in 1..Len(lyricsBody.items) |->
                      [words |-> lyricsBody.items[i].text,
                       startTimeMs |-> lyricsBody.items[i].time]],
                   LAMBDA item : item.words # <<>>)
  ELSE <<>>

\* lines 1519-1552: the embedded state blob; page.state is "none", "badjson",
\* "nobody" or "body"
StateBlobResult(page) ==
  IF page.state # "body" THEN NoResult
  ELSE LET lines == parseMusixmatchWebLyrics(page.body)
       IN IF Len(lines) > 0
            THEN Result(lines, SyncTypeOf(lines), "Musixmatch Web Scraping")
            ELSE NoResult

LongEnough(lyricsText) == StrLen(lyricsText) > MinScrapedLength

\* lines 1556-1589: the text of the first lyrics container; page.css is the
\* container's content with its markup replaced, <<>> when none is found
CssResult(page) ==
  LET lyricsText == Trim(page.css)
  IN IF LongEnough(lyricsText)
       THEN LET lines == SelectSeq(SplitLines(lyricsText), LAMBDA l : Trim(l) # <<>>)
            IN Result([i \in 1..Len(lines) |-> [words |-> Trim(lines[i]), startTimeMs |-> 0]],
                      "UNSYNCED", "Musixmatch Web Scraping (unsynced)")
       ELSE NoResult

WebPageResult(reply) ==
  IF reply.kind # "hit" THEN NoResult
  ELSE IF StateBlobResult(reply.page).ok THEN StateBlobResult(reply.page)
  ELSE CssResult(reply.page)

----------------------------------------------------------------------------
(* getAllLyricsSources 2041-2063 and getMusixmatchLyrics 2006-2035.  The   *)
(* run of one request is the record [pc, sources, variants,                *)
(* variantReturned, returned, lyricsData, mxTrack]; each operator below    *)
(* takes the run to the next await or to the pipeline's return.           *)

SourceNames == <<"LRCLIB", "NetEase", "QQ Music", "Musixmatch">>

FirstCall == <<"lrclib_search", "netease_search", "qq_search">>

NoTrack == [hasLyrics |-> FALSE, hasSubtitles |-> FALSE]

\* line 2053: result && result.lyrics && result.lyrics.lines && lines.length > 0
HasLines(result) == result.ok /\ Len(result.lines) > 0

\* lines 2008-2019: the first variant the composite calls
FirstVariant(key) == IF key THEN "official" ELSE "desktop"

VariantCall(variant) ==
  IF variant = "official" THEN "mxo_search"
  ELSE IF variant = "desktop" THEN "mxd_search"
  ELSE "mxw_search"

CallVariant(run, variant) ==
  [run EXCEPT !.variants = Append(@, variant), !.pc = VariantCall(variant)]

\* lines 2049-2052: the loop reaches source i and calls it; behind the last
\* source the pipeline returns null (line 2062)
CallSource(run, i, key) ==
  IF i > Len(SourceNames)
    THEN [run EXCEPT !.pc = "return", !.lyricsData = NoResult]
  ELSE LET called == [run EXCEPT !.sources = Append(@, SourceNames[i])]
       IN IF i = 4 THEN CallVariant(called, FirstVariant(key))
                   ELSE [called EXCEPT !.pc = FirstCall[i]]

\* the loop without its early return: every source is called, the last result kept
AfterSourceKeepsGoing(run, i, result, key) ==
  LET got == [run EXCEPT !.returned = Append(@, result)]
  IN IF i < Len(SourceNames) THEN CallSource(got, i + 1, key)
     ELSE [got EXCEPT !.pc = "return", !.lyricsData = result]

\* the loop giving up at the first source without lines
AfterSourceStops(run, i, result, key) ==
  LET got == [run EXCEPT !.returned = Append(@, result)]
  IN [got EXCEPT !.pc = "return",
                 !.lyricsData = IF HasLines(result) THEN result ELSE NoResult]

\* lines 2052-2056: source i returned result
AfterSource(run, i, result, key) ==
  LET got == [run EXCEPT !.returned = Append(@, result)]
  IN IF HasLines(result)
       THEN [got EXCEPT !.pc = "return", !.lyricsData = result]
       ELSE CallSource(got, i + 1, key)

\* the composite calling the official variant a second time when it failed
AfterVariantRetries(run, variant, result, key) ==
  LET got == [run EXCEPT !.variantReturned = Append(@, result)]
  IN IF result.ok THEN AfterSource(got, 4, result, key)
     ELSE IF variant = "official" /\ Len(run.variants) = 1 THEN CallVariant(got, "official")
     ELSE IF variant = "official" THEN CallVariant(got, "desktop")
     ELSE IF variant = "desktop" THEN CallVariant(got, "web")
     ELSE AfterSource(got, 4, NoResult, key)

\* the composite going on to the next variant whatever the last one returned
AfterVariantIgnoresSuccess(run, variant, result, key) ==
  LET got == [run EXCEPT !.variantReturned = Append(@, result)]
  IN IF variant = "official" THEN CallVariant(got, "desktop")
     ELSE IF variant = "desktop" THEN CallVariant(got, "web")
     ELSE AfterSource(got, 4, result, key)

\* lines 2011, 2020, 2028: if (result) return result; else the next variant,
\* and null behind the last (line 2034)
AfterVariant(run, variant, result, key) ==
  LET got == [run EXCEPT !.variantReturned = Append(@, result)]
  IN IF result.ok THEN AfterSource(got, 4, result, key)
     ELSE IF variant = "official" THEN CallVariant(got, "desktop")
     ELSE IF variant = "desktop" THEN CallVariant(got, "web")
     ELSE AfterSource(got, 4, NoResult, key)

----------------------------------------------------------------------------
(* GET /api/lyricstify/lyrics, src/server.js 2432-2607 *)

Unknown == <<Ch("U"), Ch("n"), Ch("k"), Ch("n"), Ch("o"), Ch("w"), Ch("n")>>

\* title.includes(' - ') || title.includes('-'), lines 2453 and 2501
HasHyphen(str) == \E i \in 1..Len(str) : str[i].k = "-"

Query(t, a, n) == [title |-> t, artist |-> a, splits |-> n]

\* lines 2446-2462: the resolved track's title and user name, the title split
\* when it holds a hyphen
FromSoundCloud(track) ==
  LET soundcloudArtist == IF track.username # <<>> THEN track.username ELSE Unknown
      parsed == parseTrackTitleWithDash(track.title)
  IN IF track.title # <<>> /\ HasHyphen(track.title) /\ parsed.found
       THEN Query(parsed.title, parsed.artist, 1)
       ELSE Query(track.title, soundcloudArtist, 0)

\* the title split only for a request without an artist
SplitDashedTitleKeepsArtist(q) ==
  LET parsed == parseTrackTitleWithDash(q.title)
  IN IF q.title # <<>> /\ HasHyphen(q.title) /\ parsed.found /\ q.artist = <<>>
       THEN Query(parsed.title, parsed.artist, q.splits + 1)
       ELSE q

\* lines 2501-2518
SplitDashedTitle(q) ==
  LET parsed == parseTrackTitleWithDash(q.title)
  IN IF q.title # <<>> /\ HasHyphen(q.title) /\ parsed.found
       THEN Query(parsed.title, parsed.artist, q.splits + 1)
       ELSE q

\* lines 2521-2528
SplitLoneTitle(q) ==
  LET parsed == parseTrackTitleWithDash(q.title)
  IN IF q.title # <<>> /\ q.artist = <<>> /\ parsed.found
       THEN Query(parsed.title, parsed.artist, q.splits + 1)
       ELSE q

\* the artist split whether or not a title is there
SplitLoneArtistAlways(q) ==
  LET parsed == parseTrackTitleWithDash(q.artist)
  IN IF q.artist # <<>> /\ parsed.found
       THEN Query(parsed.title, parsed.artist, q.splits + 1)
       ELSE q

\* lines 2531-2538
SplitLoneArtist(q) ==
  LET parsed == parseTrackTitleWithDash(q.artist)
  IN IF q.artist # <<>> /\ q.title = <<>> /\ parsed.found
       THEN Query(parsed.title, parsed.artist, q.splits + 1)
       ELSE q

\* lines 2501-2538
NormalizeQuery(q) == SplitLoneArtist(SplitLoneTitle(SplitDashedTitle(q)))

NoResponse ==
  [status |-> 0, lrc |-> <<>>, syncType |-> "", source |-> "",
   title |-> <<>>, artist |-> <<>>]

\* the fraction written as milliseconds
TimeTagMillis(startTime) ==
  Tag((startTime \div 1000) \div 60, (startTime \div 1000) % 60, 2, startTime % 1000)

\* lines 2581-2585: [mm:ss.cc] of startTime
TimeTag(startTime) ==
  Tag((startTime \div 1000) \div 60, (startTime \div 1000) % 60, 2,
      (startTime % 1000) \div 10)

\* lines 2572-2586
FormatLine(line, syncType) ==
  IF line.startTimeMs = 0 /\ syncType = "UNSYNCED"
    THEN Trim(line.words)
    ELSE <<TimeTag(line.startTimeMs)>> \o Trim(line.words)

SyncTypes == {"LINE_SYNCED", "UNSYNCED"}

\* Array.prototype.join('\n')
RECURSIVE JoinLines(_)
JoinLines(lines) ==
  IF lines = <<>> THEN <<>>
  ELSE IF Len(lines) = 1 THEN lines[1]
  ELSE lines[1] \o <<Ch("nl")>> \o JoinLines(Tail(lines))

\* lines 2568-2587
LrcLines(data) ==
  LET kept == SelectSeq(data.lines, LAMBDA l : Trim(l.words) # <<>>)
      out == [i \in 1..Len(kept) |-> FormatLine(kept[i], data.syncType)]
  IN SelectSeq(out, LAMBDA l : Trim(l) # <<>>)

\* line 2570: words.trim() of a value that is no string throws
SerializeThrows(data) ==
  \E i \in 1..Len(data.lines) : ~IsString(data.lines[i].words)

BadRequest == [NoResponse EXCEPT !.status = 400]

\* the 404 answer echoing the request's parameters instead of the query
ResponseForEchoesRequest(data, t, a) ==
  IF ~HasLines(data)
    THEN [NoResponse EXCEPT !.status = 404, !.title = reqTitle, !.artist = reqArtist]
  ELSE IF SerializeThrows(data)
    THEN [NoResponse EXCEPT !.status = 500]
  ELSE [NoResponse EXCEPT !.status = 200,
                          !.lrc = JoinLines(LrcLines(data)),
                          !.syncType = data.syncType,
                          !.source = data.source]

\* lines 2557-2606: the answer once the pipeline returned data
ResponseFor(data, t, a) ==
  IF ~HasLines(data)
    THEN [NoResponse EXCEPT !.status = 404, !.title = t, !.artist = a]
  ELSE IF SerializeThrows(data)
    THEN [NoResponse EXCEPT !.status = 500]
  ELSE [NoResponse EXCEPT !.status = 200,
                          !.lrc = JoinLines(LrcLines(data)),
                          !.syncType = data.syncType,
                          !.source = data.source]

----------------------------------------------------------------------------
(* Inputs of the parser *)

RECURSIVE SeqsUpTo(_, _)
SeqsUpTo(S, n) ==
  IF n = 0 THEN {<<>>}
  ELSE LET shorter == SeqsUpTo(S, n - 1)
       IN shorter \cup {Append(q, x) : q \in {r \in shorter : Len(r) = n - 1}, x \in S}

\* [00:01], [00:00.50], [00:00.050] and plain characters
LrcAlphabet ==
  {Tag(0, 1, 0, 0), Tag(0, 0, 2, 50), Tag(0, 0, 3, 50),
   Ch("a"), Ch("sp"), Ch("nl"), Ch("meta")}

\* one tag with every fraction the pattern admits, followed by a letter
TagMinutes == {0, 1, 99}

TagSeconds == {0, 59, 60, 99}

FractionTags ==
  {Tag(mm, ss, 0, 0) : mm \in TagMinutes, ss \in TagSeconds}
    \cup {Tag(mm, ss, 2, ff) : mm \in TagMinutes, ss \in TagSeconds, ff \in 0..99}
    \cup {Tag(mm, ss, 3, ff) : mm \in TagMinutes, ss \in TagSeconds, ff \in 0..999}

LrcInputs == SeqsUpTo(LrcAlphabet, MaxLrcLen) \cup {<<t, Ch("a")>> : t \in FractionTags}

----------------------------------------------------------------------------
(* What the outside world can send: requests and provider replies *)

Str(kinds) == [i \in 1..Len(kinds) |-> Ch(kinds[i])]

\* "", "a", "b - a", "b–a", a 100-letter artist before "-a", "b-c-a"
RequestTitles ==
  {<<>>, Str(<<"a">>), Str(<<"b", "sp", "-", "sp", "a">>), Str(<<"b", "en", "a">>),
   Str(<<"R", "a", "-", "a">>), Str(<<"b", "-", "c", "-", "a">>)}

RequestArtists == {<<>>, Str(<<"u">>), Str(<<"b", "-", "a">>)}

\* what the SoundCloud track lookup can answer: title and user name
ResolvedTracks ==
  {[title |-> t, username |-> u] :
     t \in {<<>>, Str(<<"a">>), Str(<<"b", "sp", "-", "sp", "a">>),
            Str(<<"b", "-", "c", "-", "a">>)},
     u \in {<<>>, Str(<<"u">>)}}

\* what the Musixmatch track.get lookup can answer: track_name, artist_name
MusixmatchTracks ==
  {[title |-> t, username |-> u] :
     t \in {<<>>, Str(<<"a">>), Str(<<"b", "-", "a">>)}, u \in {<<>>, Str(<<"u">>)}}

\* a call that throws (network, timeout), answers a status other than 200,
\* answers a body of the wrong shape, or answers that nothing was found
FailKinds == {"throw", "status", "garbage", "empty"}

TrackReplies(tracks) ==
  {[kind |-> k, track |-> [title |-> <<>>, username |-> <<>>]] : k \in FailKinds}
    \cup {[kind |-> "hit", track |-> t] : t \in tracks}

\* LRC text a provider can answer: [00:01], [00:00.00], a letter, a line break
ReplyAlphabet == {Tag(0, 1, 0, 0), Tag(0, 0, 2, 0), Ch("a"), Ch("nl")}

ReplyTexts == SeqsUpTo(ReplyAlphabet, MaxReplyLen)

\* synced texts of several lines: "[00:01.00]a\n[00:02.50]a", the same in
\* descending order, two lines of one offset, "[99:59.99]a"
SyncedSamples ==
  {<<Tag(0, 1, 2, 0), Ch("a"), Ch("nl"), Tag(0, 2, 2, 50), Ch("a")>>,
   <<Tag(0, 2, 2, 50), Ch("a"), Ch("nl"), Tag(0, 1, 2, 0), Ch("a")>>,
   <<Tag(0, 1, 2, 0), Ch("b"), Ch("nl"), Tag(0, 1, 2, 0), Ch("a")>>,
   <<Tag(99, 59, 2, 99), Ch("a")>>}

LRCLibReplies ==
  {[kind |-> k, synced |-> <<>>, plain |-> <<>>] : k \in FailKinds}
    \cup {[kind |-> "hit", synced |-> s, plain |-> <<>>] : s \in SyncedSamples}
    \cup {[kind |-> "hit", synced |-> s, plain |-> p] :
            s \in ReplyTexts, p \in {<<>>, Str(<<"a">>)}}
    \cup {[kind |-> "hit", synced |-> <<>>, plain |-> p] : p \in ReplyTexts}

SearchReplies == {[kind |-> k] : k \in FailKinds \cup {"hit"}}

TextReplies ==
  {[kind |-> k, text |-> <<>>] : k \in FailKinds}
    \cup {[kind |-> "hit", text |-> t] : t \in ReplyTexts}

\* track.search of Musixmatch: "apierror" is a header status_code other than 200
MxSearchReplies ==
  {[kind |-> k, hasLyrics |-> FALSE, hasSubtitles |-> FALSE] :
     k \in FailKinds \cup {"apierror"}}
    \cup {[kind |-> "hit", hasLyrics |-> l, hasSubtitles |-> s] :
            l \in BOOLEAN, s \in BOOLEAN}

\* lyrics_body: letters, blanks, line breaks and the commercial-use notice
MxBodyReplies ==
  {[kind |-> k, text |-> <<>>] : k \in FailKinds}
    \cup {[kind |-> "hit", text |-> t] :
            t \in SeqsUpTo({Ch("a"), Ch("sp"), Ch("nl"), Ch("disc")}, MaxReplyLen)}

WebItems ==
  {[text |-> w, time |-> t] :
     w \in {<<>>, Str(<<"a">>), Str(<<"sp">>), NonString}, t \in {0, 1000}}

NoBody == [type |-> "other", text |-> <<>>, items |-> <<>>]

WebBodies ==
  {NoBody}
    \cup {[type |-> "string", text |-> t, items |-> <<>>] :
            t \in {<<>>, Str(<<"a">>), Str(<<"a", "nl", "sp", "a">>)}}
    \cup {[type |-> "array", text |-> <<>>, items |-> it] :
            it \in SeqsUpTo(WebItems, MaxWebItems)}

CssTexts == {<<>>, Str(<<"a">>), Str(<<"R">>), Str(<<"R", "nl", "sp", "R">>)}

WebPages ==
  {[state |-> st, body |-> NoBody, css |-> c] :
     st \in {"none", "badjson", "nobody"}, c \in CssTexts}
    \cup {[state |-> "body", body |-> b, css |-> c] : b \in WebBodies, c \in CssTexts}

WebPageReplies ==
  {[kind |-> k, page |-> [state |-> "none", body |-> NoBody, css |-> <<>>]] :
     k \in FailKinds}
    \cup {[kind |-> "hit", page |-> p] : p \in WebPages}

----------------------------------------------------------------------------
(* One request to GET /api/lyricstify/lyrics *)

\* the parts of the state a specification does not use
LrcIdle ==
  /\ lrcPc = "idle" /\ lrcInput = <<>> /\ lrcLines = <<>> /\ lrcFallback = FALSE
  /\ lrcSync = "" /\ lrcOut = <<>>

DashIdle == dashPc = "idle" /\ dashInput = <<>> /\ dashResult = NoSplit

Run ==
  [pc |-> pc, sources |-> sources, variants |-> variants,
   variantReturned |-> variantReturned, returned |-> returned,
   lyricsData |-> lyricsData, mxTrack |-> mxTrack]

IdleRun ==
  [pc |-> "idle", sources |-> <<>>, variants |-> <<>>, variantReturned |-> <<>>,
   returned |-> <<>>,
   lyricsData |-> NoResult, mxTrack |-> NoTrack]

NoReply == [call |-> "", kind |-> ""]

ReqRest ==
  /\ reqTrackId = FALSE /\ reqTitle = <<>> /\ reqArtist = <<>>
  /\ title = <<>> /\ artist = <<>>
  /\ given = Query(<<>>, <<>>, 0) /\ splits = 0
  /\ pc = "idle" /\ sources = <<>> /\ variants = <<>> /\ variantReturned = <<>>
  /\ returned = <<>>
  /\ lyricsData = NoResult /\ mxTrack = NoTrack
  /\ inFlight = {} /\ lastReply = NoReply /\ syncedLyrics = <<>>
  /\ response = NoResponse

ReqIdle == keyPresent = FALSE /\ ReqRest

\* the locals of one invocation of the handler: title and artist (line 2434),
\* the run of the pipeline and of the adapter it awaits, and the response
Requests == {1, 2}

NoHandler ==
  [title |-> <<>>, artist |-> <<>>, run |-> IdleRun, response |-> NoResponse]

PairIdle ==
  /\ handlers = [r \in Requests |-> NoHandler]
  /\ alone = [r \in Requests |-> NoHandler]

\* no playlist request yet, the two tables empty
NoPlRequest ==
  [op |-> "", userCode |-> "", playlistId |-> 0, track |-> 0, listed |-> FALSE]

NoPlAnswer == [status |-> 0]

PlIdle ==
  /\ playlists = {} /\ playlistTracks = <<>> /\ lastPlaylistId = 0
  /\ plRequest = NoPlRequest /\ plAnswer = NoPlAnswer

\* every await of the handler, the pipeline and the adapters on an external
\* call (fetch at 2440, axios.get elsewhere)
ExternalCalls ==
  {"sc_track", "mxm_track", "lrclib_search", "netease_search", "netease_lyric",
   "qq_search", "qq_lyric", "mxo_search", "mxo_subtitle", "mxo_lyrics",
   "mxd_search", "mxd_subtitle", "mxw_search", "mxw_page"}

\* a call issued while the answered one is still counted as outstanding
InFlightNoAwait(flying, answered, awaited) ==
  flying \cup (IF awaited \in ExternalCalls THEN {awaited} ELSE {})

\* the awaited call has answered (or thrown) when the code goes on, and the
\* next call it reaches is issued
InFlightAfter(flying, answered, awaited) ==
  (flying \ {answered}) \cup (IF awaited \in ExternalCalls THEN {awaited} ELSE {})

\* the run moves to next; when the pipeline returned, the handler answers
Commit(next, t, a) ==
  /\ pc' = IF next.pc = "return" THEN "done" ELSE next.pc
  /\ inFlight' = InFlightAfter(inFlight, pc, next.pc)
  /\ sources' = next.sources
  /\ variants' = next.variants
  /\ variantReturned' = next.variantReturned
  /\ returned' = next.returned
  /\ lyricsData' = next.lyricsData
  /\ mxTrack' = next.mxTrack
  /\ response' = IF next.pc = "return" THEN ResponseFor(next.lyricsData, t, a)
                                       ELSE response

\* lines 2501-2555: the query is normalized, refused with 400 or handed to
\* the pipeline, which calls its first source
Resolve(q) ==
  LET n == NormalizeQuery(q)
  IN /\ title' = n.title
     /\ artist' = n.artist
     /\ splits' = n.splits
     /\ IF n.title = <<>> \/ n.artist = <<>>
          THEN /\ pc' = "done"
               /\ inFlight' = InFlightAfter(inFlight, pc, "done")
               /\ response' = BadRequest
               /\ UNCHANGED <<sources, variants, variantReturned, returned, lyricsData,
                               mxTrack>>
          ELSE Commit(CallSource(Run, 1, keyPresent), n.title, n.artist)

InitReq ==
  /\ keyPresent \in BOOLEAN
  /\ reqTrackId \in BOOLEAN
  /\ reqTitle \in RequestTitles
  /\ reqArtist \in RequestArtists
  /\ title = reqTitle
  /\ artist = reqArtist
  /\ given = Query(reqTitle, reqArtist, 0)
  /\ splits = 0
  /\ pc = "start"
  /\ sources = <<>> /\ variants = <<>> /\ variantReturned = <<>> /\ returned = <<>>
  /\ lyricsData = NoResult /\ mxTrack = NoTrack
  /\ inFlight = {} /\ lastReply = NoReply /\ syncedLyrics = <<>>
  /\ response = NoResponse

config == <<keyPresent, reqTrackId, reqTitle, reqArtist>>

\* lines 2434-2442: a request with only a trackId looks the track up
Receive ==
  /\ pc = "start"
  /\ IF reqTrackId /\ title = <<>> /\ artist = <<>>
       THEN /\ pc' = "sc_track"
            /\ inFlight' = InFlightAfter(inFlight, pc, "sc_track")
            /\ UNCHANGED <<title, artist, splits, sources, variants, variantReturned, returned,
                           lyricsData, mxTrack, response>>
       ELSE Resolve(Query(title, artist, 0))
  /\ UNCHANGED <<config, given, lastReply, syncedLyrics>>

\* lines 2444-2475: the SoundCloud lookup answered; a failed lookup is
\* followed by the Musixmatch track.get lookup
SoundCloudReply ==
  /\ pc = "sc_track"
  /\ \E reply \in TrackReplies(ResolvedTracks) :
       /\ lastReply' = [call |-> "sc_track", kind |-> reply.kind]
       /\ UNCHANGED syncedLyrics
       /\ IF reply.kind = "hit"
            THEN /\ given' = Query(reply.track.title,
                                   IF reply.track.username # <<>>
                                     THEN reply.track.username ELSE Unknown, 0)
                 /\ Resolve(FromSoundCloud(reply.track))
            ELSE /\ pc' = "mxm_track"
                 /\ inFlight' = InFlightAfter(inFlight, pc, "mxm_track")
                 /\ UNCHANGED <<given, title, artist, splits, sources, variants, variantReturned,
                                returned, lyricsData, mxTrack, response>>
  /\ UNCHANGED config

\* lines 2484-2493: the Musixmatch track.get lookup answered
MusixmatchTrackReply ==
  /\ pc = "mxm_track"
  /\ \E reply \in TrackReplies(MusixmatchTracks) :
       /\ lastReply' = [call |-> "mxm_track", kind |-> reply.kind]
       /\ UNCHANGED syncedLyrics
       /\ IF reply.kind = "hit"
            THEN /\ given' = Query(reply.track.title, reply.track.username, 0)
                 /\ Resolve(Query(reply.track.title, reply.track.username, 0))
            ELSE /\ UNCHANGED given
                 /\ Resolve(Query(title, artist, 0))
  /\ UNCHANGED config

\* a provider call answered: the adapter runs on to its next await or returns
Answered(call, reply, next) ==
  /\ pc = call
  /\ lastReply' = [call |-> call, kind |-> reply.kind]
  /\ syncedLyrics' = IF call = "lrclib_search" /\ reply.kind = "hit"
                       THEN reply.synced ELSE <<>>
  /\ Commit(next, title, artist)
  /\ UNCHANGED <<config, given, title, artist, splits>>

\* lines 2127, 2162, 2205: behind the search or a subtitle that gave nothing,
\* the plain lyrics are fetched if the track has any
OfficialPlainOrNull(run, track) ==
  IF track.hasLyrics THEN [run EXCEPT !.pc = "mxo_lyrics", !.mxTrack = track]
  ELSE AfterVariant([run EXCEPT !.mxTrack = NoTrack], "official", NoResult, keyPresent)

\* what each call can be answered with
AdapterReplies(call) ==
  CASE call = "lrclib_search" -> LRCLibReplies
    [] call \in {"netease_search", "qq_search", "mxw_search"} -> SearchReplies
    [] call \in {"netease_lyric", "qq_lyric", "mxo_subtitle", "mxd_subtitle"} -> TextReplies
    [] call = "mxo_search" -> MxSearchReplies
    [] call = "mxd_search" -> {r \in MxSearchReplies : ~r.hasLyrics}
    [] call = "mxo_lyrics" -> MxBodyReplies
    [] call = "mxw_page" -> WebPageReplies
    [] OTHER -> {}

\* the run of a request behind the answer to the call it awaits: the adapter
\* goes on to its next call or returns, and the composite and the pipeline go
\* on from what it returned
AdapterStep(run, call, reply) ==
  CASE call = "lrclib_search" -> AfterSource(run, 1, LRCLibResult(reply), keyPresent)
    [] call = "netease_search" ->
         IF SearchFoundSong(reply) THEN [run EXCEPT !.pc = "netease_lyric"]
                                   ELSE AfterSource(run, 2, NoResult, keyPresent)
    [] call = "netease_lyric" -> AfterSource(run, 2, NetEaseResult(reply), keyPresent)
    [] call = "qq_search" ->
         IF SearchFoundSong(reply) THEN [run EXCEPT !.pc = "qq_lyric"]
                                   ELSE AfterSource(run, 3, NoResult, keyPresent)
    [] call = "qq_lyric" -> AfterSource(run, 3, QQMusicResult(reply), keyPresent)
    \* lines 2091-2127
    [] call = "mxo_search" ->
         IF reply.kind # "hit"
           THEN AfterVariant(run, "official", NoResult, keyPresent)
         ELSE LET track == [hasLyrics |-> reply.hasLyrics,
                            hasSubtitles |-> reply.hasSubtitles]
              IN IF track.hasSubtitles
                   THEN [run EXCEPT !.pc = "mxo_subtitle", !.mxTrack = track]
                   ELSE OfficialPlainOrNull(run, track)
    \* lines 2138-2159
    [] call = "mxo_subtitle" ->
         IF reply.kind = "hit"
           THEN AfterVariant([run EXCEPT !.mxTrack = NoTrack], "official",
                             SubtitleResult(reply, "Musixmatch API (subtitle)"),
                             keyPresent)
           ELSE OfficialPlainOrNull(run, run.mxTrack)
    \* lines 2172-2206 and the catch of 2207
    [] call = "mxo_lyrics" ->
         AfterVariant([run EXCEPT !.mxTrack = NoTrack], "official",
                      PlainLyricsResult(reply), keyPresent)
    \* lines 1369-1393: the desktop search; the subtitle is fetched if the
    \* track has one
    [] call = "mxd_search" ->
         IF reply.kind = "hit" /\ reply.hasSubtitles
           THEN [run EXCEPT !.pc = "mxd_subtitle"]
           ELSE AfterVariant(run, "desktop", NoResult, keyPresent)
    \* lines 1411-1437
    [] call = "mxd_subtitle" ->
         AfterVariant(run, "desktop",
                      SubtitleResult(reply, "Musixmatch Desktop API (subtitle)"),
                      keyPresent)
    \* lines 1462-1477: the search page, with a link to a lyrics page or without
    [] call = "mxw_search" ->
         IF reply.kind = "hit" THEN [run EXCEPT !.pc = "mxw_page"]
                               ELSE AfterVariant(run, "web", NoResult, keyPresent)
    \* lines 1491-1595
    [] call = "mxw_page" -> AfterVariant(run, "web", WebPageResult(reply), keyPresent)

ProviderReply(call) ==
  \E reply \in AdapterReplies(call) :
    Answered(call, reply, AdapterStep(Run, call, reply))

LRCLibReply == ProviderReply("lrclib_search")

NetEaseSearchReply == ProviderReply("netease_search")

NetEaseLyricReply == ProviderReply("netease_lyric")

QQSearchReply == ProviderReply("qq_search")

QQLyricReply == ProviderReply("qq_lyric")

MxoSearchReply == ProviderReply("mxo_search")

MxoSubtitleReply == ProviderReply("mxo_subtitle")

MxoLyricsReply == ProviderReply("mxo_lyrics")

MxdSearchReply == ProviderReply("mxd_search")

MxdSubtitleReply == ProviderReply("mxd_subtitle")

MxwSearchReply == ProviderReply("mxw_search")

MxwPageReply == ProviderReply("mxw_page")

Next ==
  \/ Receive /\ UNCHANGED <<lrcVars, dashVars, pairVars, plVars>>
  \/ SoundCloudReply /\ UNCHANGED <<lrcVars, dashVars, pairVars, plVars>>
  \/ MusixmatchTrackReply /\ UNCHANGED <<lrcVars, dashVars, pairVars, plVars>>
  \/ LRCLibReply /\ UNCHANGED <<lrcVars, dashVars, pairVars, plVars>>
  \/ NetEaseSearchReply /\ UNCHANGED <<lrcVars, dashVars, pairVars, plVars>>
  \/ NetEaseLyricReply /\ UNCHANGED <<lrcVars, dashVars, pairVars, plVars>>
  \/ QQSearchReply /\ UNCHANGED <<lrcVars, dashVars, pairVars, plVars>>
  \/ QQLyricReply /\ UNCHANGED <<lrcVars, dashVars, pairVars, plVars>>
  \/ MxoSearchReply /\ UNCHANGED <<lrcVars, dashVars, pairVars, plVars>>
  \/ MxoSubtitleReply /\ UNCHANGED <<lrcVars, dashVars, pairVars, plVars>>
  \/ MxoLyricsReply /\ UNCHANGED <<lrcVars, dashVars, pairVars, plVars>>
  \/ MxdSearchReply /\ UNCHANGED <<lrcVars, dashVars, pairVars, plVars>>
  \/ MxdSubtitleReply /\ UNCHANGED <<lrcVars, dashVars, pairVars, plVars>>
  \/ MxwSearchReply /\ UNCHANGED <<lrcVars, dashVars, pairVars, plVars>>
  \/ MxwPageReply /\ UNCHANGED <<lrcVars, dashVars, pairVars, plVars>>

Init == InitReq /\ LrcIdle /\ DashIdle /\ PairIdle /\ PlIdle

Spec == Init /\ [][Next]_vars

----------------------------------------------------------------------------
(* The parser applied to one text *)

InitLRC ==
  /\ lrcPc = "input"
  /\ lrcInput \in LrcInputs
  /\ lrcLines = <<>>
  /\ lrcFallback = FALSE
  /\ lrcSync = ""
  /\ lrcOut = <<>>
  /\ DashIdle
  /\ ReqIdle
  /\ PairIdle
  /\ PlIdle

ParseLRC ==
  /\ lrcPc = "input"
  /\ lrcLines' = parseLRCLyrics(lrcInput)
  /\ lrcFallback' = (lrcInput # <<>> /\ TakesFallback(lrcInput))
  /\ lrcPc' = "parsed"
  /\ UNCHANGED <<lrcInput, lrcSync, lrcOut, dashVars, reqVars, pairVars, plVars>>

\* lines 2568-2587: the parsed lines are served, under either syncType an
\* adapter can give them (lines 1681, 1773)
SerializeLRC ==
  /\ lrcPc = "parsed"
  /\ \E syncType \in SyncTypes :
       /\ lrcSync' = syncType
       /\ lrcOut' = LrcLines(Result(lrcLines, syncType, ""))
  /\ lrcPc' = "served"
  /\ UNCHANGED <<lrcInput, lrcLines, lrcFallback, dashVars, reqVars, pairVars, plVars>>

NextLRC == ParseLRC \/ SerializeLRC

SpecLRC == InitLRC /\ [][NextLRC]_vars

----------------------------------------------------------------------------
(* The normalizer applied to one string *)

TitleAlphabet == {Ch("-"), Ch("en"), Ch("em"), Ch("sp"), Ch("a"), Ch("R")}

InitDash ==
  /\ dashPc = "input"
  /\ dashInput \in SeqsUpTo(TitleAlphabet, MaxTitleChars)
  /\ dashResult = NoSplit
  /\ LrcIdle
  /\ ReqIdle
  /\ PairIdle
  /\ PlIdle

ParseDash ==
  /\ dashPc = "input"
  /\ dashResult' = parseTrackTitleWithDash(dashInput)
  /\ dashPc' = "parsed"
  /\ UNCHANGED <<dashInput, lrcVars, reqVars, pairVars, plVars>>

NextDash == ParseDash

SpecDash == InitDash /\ [][NextDash]_vars

----------------------------------------------------------------------------
(* Two requests in the server at once.  Node runs one handler until its    *)
(* next await, so the steps of the two invocations interleave at the       *)
(* awaits.  Everything the handler, the pipeline and the adapters assign   *)
(* is declared with let or const inside the function that assigns it       *)
(* (lines 2434, 2549, 2568, 2043, 1658, ...); the only module-level name   *)
(* they read is MUSIXMATCH_API_KEY (line 2380), a const.                   *)

\* line 2432: the invocation's title and artist come from its own req.query
Arrived(q) ==
  [title |-> q.title, artist |-> q.artist,
   run |-> [IdleRun EXCEPT !.pc = "start"], response |-> NoResponse]

\* the invocation moves to next; when the pipeline returned, it answers
\* (lines 2549-2601)
Settled(h, next) ==
  [h EXCEPT !.run = [next EXCEPT !.pc = IF next.pc = "return" THEN "done" ELSE next.pc],
            !.response = IF next.pc = "return"
                           THEN ResponseFor(next.lyricsData, h.title, h.artist)
                           ELSE h.response]

\* lines 2501-2555 for a request with title or artist given
HandlerStart(h) ==
  LET n == NormalizeQuery(Query(h.title, h.artist, 0))
      named == [h EXCEPT !.title = n.title, !.artist = n.artist]
  IN IF n.title = <<>> \/ n.artist = <<>>
       THEN [named EXCEPT !.run.pc = "done", !.response = BadRequest]
       ELSE Settled(named, CallSource(h.run, 1, keyPresent))

\* the call the invocation awaits answered
HandlerHears(h, reply) == Settled(h, AdapterStep(h.run, h.run.pc, reply))

\* title and artist kept in one place for every invocation
TouchShared(hs, r, h) ==
  [q \in Requests |->
     IF q = r THEN h ELSE [hs[q] EXCEPT !.title = h.title, !.artist = h.artist]]

\* a step of invocation r assigns the locals of invocation r
Touch(hs, r, h) == [hs EXCEPT ![r] = h]

\* the two requests of a run: one splits on its dash, one does not
PairQueries ==
  {Query(Str(<<"a">>), Str(<<"u">>), 0),
   Query(Str(<<"b", "sp", "-", "sp", "a">>), <<>>, 0),
   Query(Str(<<"a">>), <<>>, 0)}

\* the answers given to the two: a thrown call, and hits with no text, with
\* "[00:01]a", with "a", and a scraped page with no lyrics, with a string
\* body or with one array item
PairTexts == {<<>>, <<Tag(0, 1, 0, 0), Ch("a")>>, Str(<<"a">>)}

PairPages ==
  {page \in WebPages :
     /\ page.css = <<>>
     /\ page.state \in {"none", "body"}
     /\ page.body.type \in {"other", "string", "array"}
     /\ page.body.text \in {<<>>, Str(<<"a">>)}
     /\ Len(page.body.items) <= 1
     /\ \A i \in 1..Len(page.body.items) : page.body.items[i].time = 0}

PairSample(reply) ==
  /\ reply.kind \in {"throw", "hit"}
  /\ "text" \in DOMAIN reply => reply.text \in PairTexts
  /\ "synced" \in DOMAIN reply => reply.synced \in PairTexts /\ reply.plain = <<>>
  /\ "page" \in DOMAIN reply => reply.kind = "throw" \/ reply.page \in PairPages

PairReplies(call) == {reply \in AdapterReplies(call) : PairSample(reply)}

InitPair ==
  /\ keyPresent \in BOOLEAN
  /\ \E first, second \in PairQueries :
       /\ first # second
       /\ handlers = [r \in Requests |-> Arrived(IF r = 1 THEN first ELSE second)]
  /\ alone = handlers
  /\ ReqRest
  /\ LrcIdle
  /\ DashIdle
  /\ PlIdle

PairStart ==
  \E r \in Requests :
    /\ handlers[r].run.pc = "start"
    /\ handlers' = Touch(handlers, r, HandlerStart(handlers[r]))
    /\ alone' = [alone EXCEPT ![r] = HandlerStart(alone[r])]
    /\ UNCHANGED <<lrcVars, dashVars, reqVars, plVars>>

PairReply ==
  \E r \in Requests :
    /\ handlers[r].run.pc \in ExternalCalls
    /\ \E reply \in PairReplies(handlers[r].run.pc) :
         /\ handlers' = Touch(handlers, r, HandlerHears(handlers[r], reply))
         /\ alone' = [alone EXCEPT ![r] = Settled(alone[r],
                                          AdapterStep(alone[r].run, handlers[r].run.pc, reply))]
    /\ UNCHANGED <<lrcVars, dashVars, reqVars, plVars>>

NextPair == PairStart \/ PairReply

SpecPair == InitPair /\ [][NextPair]_vars

----------------------------------------------------------------------------
(* The playlist routes, src/server.js 2714-2906, over the tables playlists  *)
(* and playlist_tracks (lines 106-124).  better-sqlite3 is synchronous: a  *)
(* handler runs from its first statement to its answer with no other       *)
(* handler in between.                                                     *)

MaxPosition == 2

\* the rows playlist_tracks holds at most
MaxRows == 2

\* userCode as sent: "" is a request without one
UserCodes == {"", "u1", "u2"}

\* the ids a request can name; lastPlaylistId never passes the largest
PlaylistIds == {1, 2}

\* track.id and :trackId as sent: 0 is a body without track or track.id
TrackIds == {1, 2}

\* trackIds as sent: no, some or all of the track ids, and one id twice
ReorderLists == SeqsUpTo(TrackIds, Cardinality(TrackIds))

\* the ownership check left out
OwnerCheckSkipped(rows, playlistId, userCode) ==
  \E r \in rows : r.id = playlistId

\* SELECT id FROM playlists WHERE id = ? AND user_code = ? (lines 2746, 2777,
\* 2825, 2856, 2892)
playlistCheck(rows, playlistId, userCode) ==
  [id |-> playlistId, user_code |-> userCode] \in rows

RowsOf(rows, playlistId) == SelectSeq(rows, LAMBDA r : r.playlist_id = playlistId)

\* the check of line 2783 left out
NeverExisting(rows, playlistId, trackId) == FALSE

\* line 2783
existing(rows, playlistId, trackId) ==
  \E i \in 1..Len(rows) : rows[i].playlist_id = playlistId /\ rows[i].track_id = trackId

\* lines 2789-2790: (maxPosition?.max_pos || 0) + 1
nextPosition(rows, playlistId) ==
  LET mine == RowsOf(rows, playlistId)
  IN IF mine = <<>> THEN 1
     ELSE SetMax({mine[i].position : i \in 1..Len(mine)}) + 1

\* lines 2751-2756: ORDER BY position, added_at; rows of one position come in
\* the order they were added
RECURSIVE SortByPosition(_)
SortByPosition(rows) ==
  IF rows = <<>> THEN <<>>
  ELSE LET x == rows[Len(rows)]
           front == SortByPosition(SubSeq(rows, 1, Len(rows) - 1))
           before == SelectSeq(front, LAMBDA r : r.position <= x.position)
           after == SelectSeq(front, LAMBDA r : r.position > x.position)
       IN before \o <<x>> \o after

TracksListed(rows, playlistId) ==
  LET sorted == SortByPosition(RowsOf(rows, playlistId))
  IN [i \in 1..Len(sorted) |-> sorted[i].track_id]

\* line 2862: UPDATE playlist_tracks SET position = ? WHERE playlist_id = ? AND
\* track_id = ?
SetPosition(rows, playlistId, trackId, position) ==
  [i \in 1..Len(rows) |->
     IF rows[i].playlist_id = playlistId /\ rows[i].track_id = trackId
       THEN [rows[i] EXCEPT !.position = position]
       ELSE rows[i]]

\* lines 2865-2869: trackIds.forEach((trackId, index) => updateStmt.run(index + 1, ...))
RECURSIVE Reordered(_, _, _, _)
Reordered(rows, playlistId, trackIds, index) ==
  IF index > Len(trackIds) THEN rows
  ELSE Reordered(SetPosition(rows, playlistId, trackIds[index], index),
                 playlistId, trackIds, index + 1)

\* what is kept of a request: the route, the userCode, :playlistId, the
\* track id it names and whether it carries an array trackIds
PlRequest(op, userCode, playlistId, track, listed) ==
  [op |-> op, userCode |-> userCode, playlistId |-> playlistId, track |-> track,
   listed |-> listed]

\* the handler answers; the tables are as it left them
PlAnswered(request, status, rows, trackRows) ==
  /\ plRequest' = request
  /\ plAnswer' = [status |-> status]
  /\ playlists' = rows
  /\ playlistTracks' = trackRows

\* POST /api/playlists, lines 2714-2732; the user codes are rows of users
CreatePlaylist ==
  \E userCode \in UserCodes, named \in BOOLEAN :
    LET request == PlRequest("create", userCode, 0, 0, FALSE)
    IN IF userCode = "" \/ ~named
         THEN /\ PlAnswered(request, 400, playlists, playlistTracks)
              /\ UNCHANGED lastPlaylistId
         ELSE /\ lastPlaylistId + 1 \in PlaylistIds
              /\ lastPlaylistId' = lastPlaylistId + 1
              /\ PlAnswered(request, 200,
                            playlists \cup {[id |-> lastPlaylistId + 1,
                                             user_code |-> userCode]},
                            playlistTracks)

\* GET /api/playlists/:playlistId/tracks, lines 2736-2764; the body of the
\* 200 answer is TracksListed of the rows
ListTracks ==
  \E userCode \in UserCodes, playlistId \in PlaylistIds :
    LET request == PlRequest("list", userCode, playlistId, 0, FALSE)
    IN /\ IF userCode = ""
            THEN PlAnswered(request, 400, playlists, playlistTracks)
          ELSE IF ~playlistCheck(playlists, playlistId, userCode)
            THEN PlAnswered(request, 404, playlists, playlistTracks)
          ELSE PlAnswered(request, 200, playlists, playlistTracks)
       /\ UNCHANGED lastPlaylistId

\* POST /api/playlists/:playlistId/tracks, lines 2767-2812
AddTrack ==
  \E userCode \in UserCodes, playlistId \in PlaylistIds, track \in TrackIds \cup {0} :
    LET request == PlRequest("add", userCode, playlistId, track, FALSE)
    IN /\ IF userCode = "" \/ track = 0
            THEN PlAnswered(request, 400, playlists, playlistTracks)
          ELSE IF ~playlistCheck(playlists, playlistId, userCode)
            THEN PlAnswered(request, 404, playlists, playlistTracks)
          ELSE IF existing(playlistTracks, playlistId, track)
            THEN PlAnswered(request, 400, playlists, playlistTracks)
          ELSE /\ nextPosition(playlistTracks, playlistId) <= MaxPosition
               /\ Len(playlistTracks) < MaxRows
               /\ PlAnswered(request, 200, playlists,
                             Append(playlistTracks,
                                    [playlist_id |-> playlistId, track_id |-> track,
                                     position |-> nextPosition(playlistTracks,
                                                               playlistId)]))
       /\ UNCHANGED lastPlaylistId

\* DELETE /api/playlists/:playlistId/tracks/:trackId, lines 2815-2839
RemoveTrack ==
  \E userCode \in UserCodes, playlistId \in PlaylistIds, track \in TrackIds :
    LET request == PlRequest("remove", userCode, playlistId, track, FALSE)
    IN /\ IF userCode = ""
            THEN PlAnswered(request, 400, playlists, playlistTracks)
          ELSE IF ~playlistCheck(playlists, playlistId, userCode)
            THEN PlAnswered(request, 404, playlists, playlistTracks)
          ELSE PlAnswered(request, 200, playlists,
                          SelectSeq(playlistTracks,
                                    LAMBDA r : ~(r.playlist_id = playlistId
                                                   /\ r.track_id = track)))
       /\ UNCHANGED lastPlaylistId

\* PUT /api/playlists/:playlistId/reorder, lines 2842-2879; listed is whether
\* the body has an array trackIds
ReorderTracks ==
  \E userCode \in UserCodes, playlistId \in PlaylistIds, listed \in BOOLEAN :
    \E trackIds \in IF listed THEN ReorderLists ELSE {<<>>} :
      LET request == PlRequest("reorder", userCode, playlistId, 0, listed)
      IN /\ IF userCode = "" \/ ~listed
              THEN PlAnswered(request, 400, playlists, playlistTracks)
            ELSE IF ~playlistCheck(playlists, playlistId, userCode)
              THEN PlAnswered(request, 404, playlists, playlistTracks)
            ELSE PlAnswered(request, 200, playlists,
                            Reordered(playlistTracks, playlistId, trackIds, 1))
         /\ UNCHANGED lastPlaylistId

\* DELETE /api/playlists/:playlistId, lines 2882-2906; the tracks of the
\* playlist go with it (ON DELETE CASCADE, line 123)
DeletePlaylist ==
  \E userCode \in UserCodes, playlistId \in PlaylistIds :
    LET request == PlRequest("delete", userCode, playlistId, 0, FALSE)
    IN /\ IF userCode = ""
            THEN PlAnswered(request, 400, playlists, playlistTracks)
          ELSE IF ~playlistCheck(playlists, playlistId, userCode)
            THEN PlAnswered(request, 404, playlists, playlistTracks)
          ELSE PlAnswered(request, 200,
                          {r \in playlists : r.id # playlistId},
                          SelectSeq(playlistTracks,
                                    LAMBDA r : r.playlist_id # playlistId))
       /\ UNCHANGED lastPlaylistId

InitPlaylists ==
  /\ PlIdle
  /\ ReqIdle
  /\ LrcIdle
  /\ DashIdle
  /\ PairIdle

NextPlaylists ==
  \/ CreatePlaylist /\ UNCHANGED <<lrcVars, dashVars, reqVars, pairVars>>
  \/ ListTracks /\ UNCHANGED <<lrcVars, dashVars, reqVars, pairVars>>
  \/ AddTrack /\ UNCHANGED <<lrcVars, dashVars, reqVars, pairVars>>
  \/ RemoveTrack /\ UNCHANGED <<lrcVars, dashVars, reqVars, pairVars>>
  \/ ReorderTracks /\ UNCHANGED <<lrcVars, dashVars, reqVars, pairVars>>
  \/ DeletePlaylist /\ UNCHANGED <<lrcVars, dashVars, reqVars, pairVars>>

SpecPlaylists == InitPlaylists /\ [][NextPlaylists]_vars

----------------------------------------------------------------------------
(* What the specification says of the parser, stated without the parser's  *)
(* own definitions                                                         *)

\* a 2-digit fraction is hundredths, a 3-digit fraction is milliseconds
ClaimFractionMs(t) == IF t.d = 2 THEN t.f * 10 ELSE IF t.d = 3 THEN t.f ELSE 0

ClaimOffsetMs(t) == (t.m * 60 + t.s) * 1000 + ClaimFractionMs(t)

TagPositions(text) == {i \in 1..Len(text) : IsTag(text[i])}

NoTags(text) == TagPositions(text) = {}

\* the text that follows text[i] on its line, tags left out, trimmed
TextAfter(text, i) ==
  LET nls == {j \in (i + 1)..Len(text) : text[j].k = "nl"}
      last == IF nls = {} THEN Len(text) ELSE SetMin(nls) - 1
  IN Trim(SelectSeq(SubSeq(text, i + 1, last), LAMBDA t : ~IsTag(t)))

AllTagsHaveText(text) == \A i \in TagPositions(text) : TextAfter(text, i) # <<>>

SortedByOffset(lines) ==
  \A i, j \in 1..Len(lines) : i < j => lines[i].startTimeMs <= lines[j].startTimeMs

\* the pattern of line 1945 matches somewhere: a tag with a character behind
\* it on its line
HasTimestampMatch(text) ==
  \E i \in 1..(Len(text) - 1) : IsTag(text[i]) /\ text[i + 1].k # "nl"

\* a line has a timed entry when its first tag is followed by non-blank text
HasTimedEntry(line) ==
  \E i \in 1..Len(line) :
    /\ IsTag(line[i])
    /\ \A j \in 1..(i - 1) : ~IsTag(line[j])
    /\ Trim(SubSeq(line, i + 1, Len(line))) # <<>>

NoTimedEntry(text) == \A n \in 1..Len(SplitLines(text)) : ~HasTimedEntry(SplitLines(text)[n])

\* the non-empty, non-metadata lines in their order, tags left out, trimmed,
\* each with offset 0
RECURSIVE ClaimUntimed(_)
ClaimUntimed(textLines) ==
  IF textLines = <<>> THEN <<>>
  ELSE LET line == Head(textLines)
           words == Trim(SelectSeq(line, LAMBDA t : ~IsTag(t)))
           rest == ClaimUntimed(Tail(textLines))
       IN IF Trim(line) = <<>> \/ line[1].k = "meta" \/ words = <<>>
            THEN rest
            ELSE <<[words |-> words, startTimeMs |-> 0]>> \o rest

\* C6: a text with N >= 1 time tags, each followed by non-empty text, parses
\* to exactly N lines, ascending by offset, whose offsets are the tags'
\* (mm*60+ss)*1000 plus the fraction in milliseconds, several tags on one
\* text line included.
C6_OneLinePerTag ==
  (lrcPc = "parsed" /\ ~NoTags(lrcInput) /\ AllTagsHaveText(lrcInput)) =>
    /\ Len(lrcLines) = Cardinality(TagPositions(lrcInput))
    /\ SortedByOffset(lrcLines)
    /\ \A i \in TagPositions(lrcInput) :
         Cardinality({n \in 1..Len(lrcLines) :
                        lrcLines[n].startTimeMs = ClaimOffsetMs(lrcInput[i])})
           = Cardinality({j \in TagPositions(lrcInput) :
                            ClaimOffsetMs(lrcInput[j]) = ClaimOffsetMs(lrcInput[i])})

\* C7: the fraction of a tag counts by its digits: cc gives cc*10 ms and ccc
\* gives ccc ms, for every cc in 00..99 and ccc in 000..999.
C7_FractionByDigits ==
  (lrcPc = "parsed" /\ Len(lrcInput) = 2 /\ IsTag(lrcInput[1]) /\ lrcInput[2] = Ch("a")) =>
    /\ Len(lrcLines) = 1
    /\ lrcLines[1].startTimeMs
         = (lrcInput[1].m * 60 + lrcInput[1].s) * 1000 + ClaimFractionMs(lrcInput[1])

\* C8 as stated: a text without a time tag parses to its non-empty,
\* non-metadata lines with offset 0 in their order, and the fallback that
\* produces untimed lines runs only when the pattern matched nowhere.
C8_FallbackOnlyWithoutMatch ==
  lrcPc = "parsed" =>
    /\ NoTags(lrcInput) => lrcLines = ClaimUntimed(SplitLines(lrcInput))
    /\ (lrcFallback /\ lrcLines # <<>>) => ~HasTimestampMatch(lrcInput)
    /\ lrcFallback => lrcLines = ClaimUntimed(SplitLines(lrcInput))

\* C8 as amended: a text without a time tag parses to its non-empty,
\* non-metadata lines with offset 0 in their order; the fallback runs exactly
\* when no tag is followed by non-blank text on its line (which a match with
\* blank text does not prevent), and then no metadata line is output.
C8_FallbackWithoutTimedLine ==
  lrcPc = "parsed" =>
    /\ NoTags(lrcInput) => lrcLines = ClaimUntimed(SplitLines(lrcInput))
    /\ lrcFallback <=> (lrcInput # <<>> /\ NoTimedEntry(lrcInput))
    /\ lrcFallback => lrcLines = ClaimUntimed(SplitLines(lrcInput))

\* a text without tags, with a metadata line, parsed to two untimed lines
C8_Witness ==
  /\ lrcPc = "parsed"
  /\ lrcFallback
  /\ NoTags(lrcInput)
  /\ \E n \in 1..Len(SplitLines(lrcInput)) :
       SplitLines(lrcInput)[n] # <<>> /\ SplitLines(lrcInput)[n][1].k = "meta"
  /\ Len(lrcLines) = 2

----------------------------------------------------------------------------
(* What the specification says of the normalizer *)

Separator == <<Ch("sp"), Ch("-"), Ch("sp")>>

\* the places i where str is A, " - ", B with A = str[1..i-1], B = str[i+3..]
SeparatorPlaces(str) ==
  {i \in 2..(Len(str) - 3) : SubSeq(str, i, i + 2) = Separator}

LeftOf(str, i) == SubSeq(str, 1, i - 1)

RightOf(str, i) == SubSeq(str, i + 3, Len(str))

Trimmed(str) == str # <<>> /\ ~IsWs(str[1]) /\ ~IsWs(str[Len(str)])

HasAny(str, kinds) == \E j \in 1..Len(str) : str[j].k \in kinds

\* C9 as stated: "<A> - <B>" with A and B non-empty (and not padded with
\* blanks), length(A) < 100 and length(B) < 200 splits into artist A and
\* title B, also when A contains a hyphen.
C9_SplitsAtSeparator ==
  dashPc = "parsed" =>
    \A i \in SeparatorPlaces(dashInput) :
      LET A == LeftOf(dashInput, i)
          B == RightOf(dashInput, i)
      IN (Trimmed(A) /\ Trimmed(B) /\ StrLen(A) < 100 /\ StrLen(B) < 200) =>
           dashResult = [found |-> TRUE, artist |-> A, title |-> B]

\* C9 as amended: the same, for an A that contains no hyphen, en dash or em
\* dash and a B that contains no en dash or em dash.
C9_SplitsAtFirstHyphen ==
  dashPc = "parsed" =>
    \A i \in SeparatorPlaces(dashInput) :
      LET A == LeftOf(dashInput, i)
          B == RightOf(dashInput, i)
      IN (/\ Trimmed(A) /\ Trimmed(B) /\ StrLen(A) < 100 /\ StrLen(B) < 200
          /\ ~HasAny(A, {"-", "en", "em"})
          /\ ~HasAny(B, {"en", "em"})) =>
           dashResult = [found |-> TRUE, artist |-> A, title |-> B]

\* "a a - a-a" style input: a two-character artist, a title with a hyphen
C9_Witness ==
  /\ dashPc = "parsed"
  /\ \E i \in SeparatorPlaces(dashInput) :
       /\ Len(LeftOf(dashInput, i)) = 1
       /\ ~HasAny(LeftOf(dashInput, i), {"-", "en", "em", "sp"})
       /\ Len(RightOf(dashInput, i)) = 2
       /\ RightOf(dashInput, i)[1].k = "-"
       /\ dashResult.found
       /\ dashResult.artist = LeftOf(dashInput, i)
       /\ dashResult.title = RightOf(dashInput, i)

----------------------------------------------------------------------------
(* What the specification says of the pipeline and the endpoint *)

\* a result with at least one line
Usable(result) == result.ok /\ result.lines # <<>>

InPipeline == pc \notin {"idle", "start", "sc_track", "mxm_track"} /\ response.status # 400

NoDuplicates(seq) == \A i, j \in 1..Len(seq) : i # j => seq[i] # seq[j]

C2_ExhaustedIsNotFound ==
  (pc = "done" /\ Len(returned) = 4 /\ \A i \in 1..4 : ~Usable(returned[i])) =>
    /\ lyricsData = NoResult
    /\ response.status = 404
    /\ response.title = title
    /\ response.artist = artist

\* all four sources called, the last one returned a result without lines,
\* for a query the normalizer had split
C2_Witness ==
  /\ pc = "done"
  /\ Len(returned) = 4
  /\ returned[4].ok
  /\ returned[4].lines = <<>>
  /\ splits = 1
  /\ response.status = 404

\* what can go wrong with one call: it throws (network, timeout), answers a
\* status other than 200, or answers a body that cannot be read
HardFailures == {"throw", "status", "garbage"}

AbsentThenNext(i) ==
  /\ Len(returned) = i
  /\ returned[i] = NoResult
  /\ Len(sources) = i + 1
  /\ sources[i + 1] = SourceNames[i + 1]
  /\ pc # "done"
  /\ response.status = 0

\* C3: a provider call that fails makes its adapter return null, no answer
\* is sent on its account, and the next provider in the order is called
\* (behind the last one the pipeline ends in 404, never in 500).
C3_FailureAbsorbed ==
  lastReply.kind \in HardFailures =>
    /\ response.status # 500
    /\ lastReply.call = "lrclib_search" => AbsentThenNext(1)
    /\ lastReply.call \in {"netease_search", "netease_lyric"} => AbsentThenNext(2)
    /\ lastReply.call \in {"qq_search", "qq_lyric"} => AbsentThenNext(3)
    /\ lastReply.call \in {"mxo_search", "mxo_lyrics"} =>
         variants = <<"official", "desktop">> /\ pc = "mxd_search" /\ response.status = 0
    /\ lastReply.call = "mxo_subtitle" =>
         pc \in {"mxo_lyrics", "mxd_search"} /\ response.status = 0
    /\ lastReply.call \in {"mxd_search", "mxd_subtitle"} =>
         variants[Len(variants)] = "web" /\ pc = "mxw_search" /\ response.status = 0
    /\ lastReply.call \in {"mxw_search", "mxw_page"} =>
         /\ Len(returned) = 4
         /\ returned[4] = NoResult
         /\ pc = "done"
         /\ response.status = 404

\* NetEase's lyric call answered a body that cannot be read: QQ Music is called
C3_Witness ==
  /\ lastReply = [call |-> "netease_lyric", kind |-> "garbage"]
  /\ pc = "qq_search"
  /\ returned = <<NoResult, NoResult>>

\* C4: within a request no source and no Musixmatch variant is called twice.
C4_AtMostOnce ==
  /\ NoDuplicates(sources)
  /\ NoDuplicates(variants)
  /\ Len(variants) > 0 => Len(sources) = 4

\* every source and every variant was called, all failed
C4_Witness ==
  /\ pc = "done"
  /\ Len(sources) = 4
  /\ variants = <<"official", "desktop", "web">>
  /\ response.status = 404

\* C5: every result an adapter returns, and so every 200 answer, is
\* LINE_SYNCED exactly when one of its lines has an offset above 0.
C5_SyncTypeFollowsOffsets ==
  /\ \A i \in 1..Len(returned) :
       returned[i].ok =>
         (returned[i].syncType = "LINE_SYNCED"
            <=> \E n \in 1..Len(returned[i].lines) : returned[i].lines[n].startTimeMs > 0)
  /\ response.status = 200 =>
       (response.syncType = "LINE_SYNCED"
          <=> \E n \in 1..Len(lyricsData.lines) : lyricsData.lines[n].startTimeMs > 0)

\* the normalizer is expected to find no split: the title holds no hyphen or
\* dash, or what stands before its first hyphen or dash is 100 characters or
\* longer
FirstDash(str) == SetMin({i \in 1..Len(str) : str[i].k \in {"-", "en", "em"}})

NoSplitExpected(str) ==
  /\ str # <<>>
  /\ \/ ~HasAny(str, {"-", "en", "em"})
     \/ StrLen(Trim(SubSeq(str, 1, FirstDash(str) - 1))) >= 100

\* C10: when the normalizer finds no split, the pipeline is handed the title
\* and artist exactly as the caller (or the track lookup) gave them.
C10_NoSplitKeepsQuery ==
  (InPipeline /\ NoSplitExpected(given.title)) =>
    /\ splits = 0
    /\ title = given.title
    /\ artist = given.artist

\* a title whose split is rejected for its 100-character artist went through
\* the pipeline unchanged
C10_Witness ==
  /\ pc = "done"
  /\ response.status = 404
  /\ given.title = Str(<<"R", "a", "-", "a">>)
  /\ title = given.title
  /\ artist = Str(<<"b", "-", "a">>)

\* the two sides of a string's first hyphen, without the blanks around them
FirstHyphen(str) == SetMin({i \in 1..Len(str) : str[i].k = "-"})

ArtistSide(str) == Trim(SubSeq(str, 1, FirstHyphen(str) - 1))

TitleSide(str) == Trim(SubSeq(str, FirstHyphen(str) + 1, Len(str)))

\* a title with a hyphen (and no other dash) that splits within the limits
SplitsValidly(str) ==
  /\ HasAny(str, {"-"})
  /\ ~HasAny(str, {"en", "em"})
  /\ ArtistSide(str) # <<>>
  /\ TitleSide(str) # <<>>
  /\ StrLen(ArtistSide(str)) < 100
  /\ StrLen(TitleSide(str)) < 200

\* a provider call of the request is in flight
ProviderCalls ==
  {"lrclib_search", "netease_search", "netease_lyric", "qq_search", "qq_lyric",
   "mxo_search", "mxo_subtitle", "mxo_lyrics", "mxd_search", "mxd_subtitle",
   "mxw_search", "mxw_page"}

\* C12: a request with an artist and with a title whose hyphen splits validly
\* is searched under the parsed artist and title: at every provider call, and
\* when the request is answered, the query is the split and the supplied
\* artist is gone.
C12_SplitOverridesArtist ==
  (/\ reqArtist # <<>>
   /\ SplitsValidly(reqTitle)
   /\ pc \in ProviderCalls \cup {"done"}) =>
    /\ artist = ArtistSide(reqTitle)
    /\ title = TitleSide(reqTitle)
    /\ sources # <<>>

\* title "b - a" with artist "u": QQ Music is called for artist "b", title "a"
C12_Witness ==
  /\ reqTitle = Str(<<"b", "sp", "-", "sp", "a">>)
  /\ reqArtist = Str(<<"u">>)
  /\ pc = "qq_search"
  /\ artist = Str(<<"b">>)
  /\ title = Str(<<"a">>)

\* a string that splits at its first hyphen or dash into two non-empty sides
\* within the limits
CanSplit(str) ==
  /\ HasAny(str, {"-", "en", "em"})
  /\ Trim(SubSeq(str, 1, FirstDash(str) - 1)) # <<>>
  /\ Trim(SubSeq(str, FirstDash(str) + 1, Len(str))) # <<>>
  /\ StrLen(Trim(SubSeq(str, 1, FirstDash(str) - 1))) < 100
  /\ StrLen(Trim(SubSeq(str, FirstDash(str) + 1, Len(str)))) < 200

\* a non-empty title and artist can be derived from a title and an artist
PairDerivable(t, a) ==
  \/ t # <<>> /\ a # <<>>
  \/ t # <<>> /\ a = <<>> /\ CanSplit(t)
  \/ t = <<>> /\ a # <<>> /\ CanSplit(a)

TrackLookups == {"sc_track", "mxm_track"}

\* the track lookup of the request answered a title and an artist
LookupGavePair ==
  /\ lastReply.call \in TrackLookups
  /\ lastReply.kind = "hit"
  /\ given.title # <<>>
  /\ given.artist # <<>>

\* C13: the endpoint answers 400 exactly when no title/artist pair can be
\* produced: never when the request's parameters give one, never for a
\* request with a trackId unless its lookup was made and gave no pair, and
\* always when neither gives one; no provider is called on a 400.
C13_BadRequestExactly ==
  pc = "done" =>
    /\ response.status = 400 => sources = <<>> /\ variants = <<>>
    /\ PairDerivable(reqTitle, reqArtist) => response.status # 400
    /\ (response.status = 400 /\ reqTrackId) =>
         lastReply.call \in TrackLookups /\ ~LookupGavePair
    /\ (~reqTrackId /\ ~PairDerivable(reqTitle, reqArtist)) => response.status = 400

----------------------------------------------------------------------------
(* What the specification says of the serializer *)

\* out is [mm:ss.cc]text: two digits each, ss below 60, the offset cut to
\* centiseconds
TaggedAs(out, offset, text) ==
  /\ out # <<>>
  /\ out[1].k = "tag"
  /\ out[1].m \in 0..99
  /\ out[1].s \in 0..59
  /\ out[1].d = 2
  /\ out[1].f \in 0..99
  /\ (out[1].m * 60 + out[1].s) * 1000 + out[1].f * 10 = offset - (offset % 10)
  /\ Tail(out) = text

\* C14: of the served lines, one with offset 0 under UNSYNCED is its bare
\* text; every other one is [mm:ss.cc]text with two digits each, ss < 60 and
\* mm:ss.cc the offset cut to centiseconds, for every offset the parser
\* produces.
C14_SerializedLines ==
  lrcPc = "served" =>
    /\ Len(lrcOut) = Len(lrcLines)
    /\ \A i \in 1..Len(lrcOut) :
         IF lrcLines[i].startTimeMs = 0 /\ lrcSync = "UNSYNCED"
           THEN lrcOut[i] = lrcLines[i].words
           ELSE TaggedAs(lrcOut[i], lrcLines[i].startTimeMs, lrcLines[i].words)

----------------------------------------------------------------------------
(* What the specification says of parsing and serializing together *)

\* the offset a tag [mm:ss.cc] stands for
TagOffset(t) == (t.m * 60 + t.s) * 1000 + t.f * 10

\* a line [mm:ss.cc]text: two-digit fraction, ss < 60, text without blanks
\* around it
SyncedLine(line) ==
  /\ Len(line) >= 2
  /\ line[1].k = "tag"
  /\ line[1].d = 2
  /\ line[1].s < 60
  /\ Trimmed(Tail(line))

\* lines [mm:ss.cc]text in ascending order of time
SyncedText(text) ==
  LET textLines == SplitLines(text)
  IN /\ text # <<>>
     /\ \A i \in 1..Len(textLines) : SyncedLine(textLines[i])
     /\ \A i, j \in 1..Len(textLines) :
          i < j => TagOffset(textLines[i][1]) <= TagOffset(textLines[j][1])

\* C15: synced lyrics of LRCLIB's first hit made of lines [mm:ss.cc]text in
\* ascending order come back as the response's lrc, line for line, with
\* syncType LINE_SYNCED.
C15_RoundTrip ==
  SyncedText(syncedLyrics) =>
    /\ pc = "done"
    /\ response.status = 200
    /\ response.lrc = syncedLyrics
    /\ response.syncType = "LINE_SYNCED"

\* "[00:01.00]a\n[00:02.50]a" came back unchanged
C15_Witness ==
  /\ syncedLyrics = <<Tag(0, 1, 2, 0), Ch("a"), Ch("nl"), Tag(0, 2, 2, 50), Ch("a")>>
  /\ response.status = 200
  /\ response.lrc = syncedLyrics
  /\ response.syncType = "LINE_SYNCED"

----------------------------------------------------------------------------
(* What the specification says of Musixmatch's plain lyrics *)

\* the official adapter's plain lyrics fetch gave the request's result
PlainLyricsWon ==
  /\ pc = "done"
  /\ lastReply = [call |-> "mxo_lyrics", kind |-> "hit"]
  /\ Len(returned) = 4
  /\ \A i \in 1..3 : ~Usable(returned[i])
  /\ Usable(returned[4])

\* C16: when the three first sources are absent and the official adapter
\* gets plain lyrics, the response is UNSYNCED, its lines are the text lines
\* without any time tag, and the commercial-use notice is in none of them; a
\* subtitle fetch that fails is followed by the plain lyrics fetch when the
\* track has lyrics.
C16_PlainLyricsUnsynced ==
  /\ PlainLyricsWon =>
       /\ response.status = 200
       /\ response.syncType = "UNSYNCED"
       /\ response.source = "Musixmatch API (lyrics)"
       /\ response.lrc # <<>>
       /\ ~HasAny(response.lrc, {"tag", "disc"})
       /\ response.lrc =
            JoinLines([i \in 1..Len(lyricsData.lines) |-> Trim(lyricsData.lines[i].words)])
  /\ (lastReply.call = "mxo_subtitle" /\ lastReply.kind # "hit") =>
       /\ pc \in {"mxo_lyrics", "mxd_search"}
       /\ pc = "mxo_lyrics" <=> mxTrack.hasLyrics

\* the plain lyrics "a " answered as the bare line "a" under UNSYNCED
C16_Witness ==
  /\ PlainLyricsWon
  /\ lyricsData.lines = <<[words |-> Str(<<"a", "sp">>), startTimeMs |-> 0]>>
  /\ response.lrc = Str(<<"a">>)
  /\ response.status = 200
  /\ response.syncType = "UNSYNCED"

----------------------------------------------------------------------------
(* What the specification says of the Musixmatch composite *)

VariantOrder == <<"official", "desktop", "web">>

IsPrefix(seq, whole) ==
  Len(seq) <= Len(whole) /\ \A i \in 1..Len(seq) : seq[i] = whole[i]

\* the variant a result of the composite comes from, by its source label
VariantOf(result) ==
  IF result.source \in {"Musixmatch API (subtitle)", "Musixmatch API (lyrics)"}
    THEN "official"
  ELSE IF result.source = "Musixmatch Desktop API (subtitle)" THEN "desktop"
  ELSE IF result.source \in {"Musixmatch Web Scraping", "Musixmatch Web Scraping (unsynced)"}
    THEN "web"
  ELSE "none"

\* C17: the composite calls official (with an API key only), desktop, web in
\* this order, one after the other; a variant is called only when every
\* earlier one returned null; the variant that returns a result is the last
\* one called and its result is the composite's; null is returned only
\* behind the web variant.
C17_CompositeOrder ==
  /\ IF keyPresent THEN IsPrefix(variants, VariantOrder)
                   ELSE IsPrefix(variants, Tail(VariantOrder))
  /\ (Len(sources) = 4 /\ pc # "idle") => variants # <<>>
  /\ Len(variantReturned) \in {n \in {Len(variants) - 1, Len(variants)} : n >= 0}
  /\ \A i \in 1..Len(variantReturned) :
       /\ i < Len(variants) => ~variantReturned[i].ok
       /\ variantReturned[i].ok =>
            /\ VariantOf(variantReturned[i]) = variants[i]
            /\ Len(returned) = 4
            /\ returned[4] = variantReturned[i]
  /\ Len(returned) = 4 =>
       /\ Len(variantReturned) = Len(variants)
       /\ ~returned[4].ok => variants[Len(variants)] = "web"

\* with a key: official returned nothing, desktop returned a subtitle, the
\* web variant was not called
C17_Witness ==
  /\ keyPresent
  /\ pc = "done"
  /\ variants = <<"official", "desktop">>
  /\ Len(returned) = 4
  /\ returned[4].ok
  /\ returned[4].source = "Musixmatch Desktop API (subtitle)"

----------------------------------------------------------------------------
(* What the specification says of the order of the external calls *)

----------------------------------------------------------------------------
(* Two requests at once *)

----------------------------------------------------------------------------
(* Failures of the providers *)

\* C20: a request whose title and artist are both non-empty is answered with
\* lyrics (200) or with not found (404) whatever the providers reply: no
\* reply makes the handler answer 500.
C20_NeverServerError ==
  (pc = "done" /\ title # <<>> /\ artist # <<>>) => response.status \in {200, 404}

----------------------------------------------------------------------------
(* What the adapters return *)

\* C21: whatever an adapter, a Musixmatch variant or the composite returned is
\* either absent or a result with at least one line; a reply parsing to no
\* line is reported as absent.
C21_AbsentOrLines ==
  /\ \A i \in 1..Len(returned) : returned[i].ok => returned[i].lines # <<>>
  /\ \A i \in 1..Len(variantReturned) :
       variantReturned[i].ok => variantReturned[i].lines # <<>>

----------------------------------------------------------------------------
(* The split on every request path *)

\* C22: a combined title that splits validly, whether it came with the
\* request or from a track lookup, is split once, at its first hyphen: at
\* every provider call and at the answer the artist is the part before the
\* first hyphen and the title all that follows it, later hyphens included.
C22_SplitOnceAtFirstHyphen ==
  (SplitsValidly(given.title) /\ pc \in ProviderCalls \cup {"done"}) =>
    /\ artist = ArtistSide(given.title)
    /\ title = TitleSide(given.title)
    /\ splits = 1

----------------------------------------------------------------------------
(* The three dash glyphs *)

\* the string with every en dash and em dash written as a hyphen
WithHyphens(str) ==
  [i \in 1..Len(str) |-> IF str[i].k \in {"en", "em"} THEN Ch("-") ELSE str[i]]

\* C23: a request whose title holds an en dash or an em dash is searched, and
\* answered, under the title and artist of the request that has hyphens in
\* their place, with or without a supplied artist.
C23_DashesAlike ==
  (/\ ~reqTrackId
   /\ HasAny(reqTitle, {"en", "em"})
   /\ pc \in ProviderCalls \cup {"done"}) =>
    LET twin == NormalizeQuery(Query(WithHyphens(reqTitle), reqArtist, 0))
    IN title = twin.title /\ artist = twin.artist

----------------------------------------------------------------------------
(* The lines handed to the serializer *)

\* C24: the lines of the result the handler serializes are in ascending order
\* of offset, whichever adapter built the result.
C24_ServedInOffsetOrder ==
  (pc = "done" /\ HasLines(lyricsData)) => SortedByOffset(lyricsData.lines)

----------------------------------------------------------------------------
(* The lines of a result *)

\* a line with a text that is a string, not blank, and an offset of 0 or more
WellFormedLine(line) ==
  /\ IsString(line.words)
  /\ Trim(line.words) # <<>>
  /\ line.startTimeMs \in Nat

\* C25: every line of every result an adapter or a Musixmatch variant
\* returned has a text that is non-empty after trimming and an offset that is
\* an integer of 0 or more.
C25_LinesWellFormed ==
  /\ \A i \in 1..Len(returned) :
       \A n \in 1..Len(returned[i].lines) : WellFormedLine(returned[i].lines[n])
  /\ \A i \in 1..Len(variantReturned) :
       \A n \in 1..Len(variantReturned[i].lines) :
         WellFormedLine(variantReturned[i].lines[n])

----------------------------------------------------------------------------
(* The strategies of the web scrape *)

\* the characters of all the lines of a result
RECURSIVE TextLength(_)
TextLength(lines) ==
  IF lines = <<>> THEN 0 ELSE StrLen(Head(lines).words) + TextLength(Tail(lines))

WebSources == {"Musixmatch Web Scraping", "Musixmatch Web Scraping (unsynced)"}

\* C26: the web scrape returns a result only from a strategy that extracted
\* more than 50 characters of text.
C26_ScrapedTextNonTrivial ==
  \A i \in 1..Len(variantReturned) :
    (variantReturned[i].ok /\ variantReturned[i].source \in WebSources) =>
      TextLength(variantReturned[i].lines) > 50

----------------------------------------------------------------------------
(* The success response *)

\* C27: a 200 response carries at least one lyric line: its lrc is never empty.
C27_SuccessHasLyrics == response.status = 200 => response.lrc # <<>>

----------------------------------------------------------------------------
(* The playlists *)

\* the playlist has a row for the track
InPlaylist(rows, playlistId, trackId) ==
  \E i \in 1..Len(rows) : rows[i].playlist_id = playlistId /\ rows[i].track_id = trackId

\* the user code the playlist's row carries, "" when there is no such row
OwnerOf(rows, playlistId) ==
  IF \E r \in rows : r.id = playlistId
    THEN (CHOOSE r \in rows : r.id = playlistId).user_code
    ELSE ""

TablesUnchanged == playlists' = playlists /\ playlistTracks' = playlistTracks

\* the request handled in this step adds, as the owner, a track the playlist has
AddsPresentTrack ==
  /\ plRequest'.op = "add"
  /\ plRequest'.userCode # ""
  /\ plRequest'.userCode = OwnerOf(playlists, plRequest'.playlistId)
  /\ InPlaylist(playlistTracks, plRequest'.playlistId, plRequest'.track)

\* C28: whatever requests were handled, no playlist has two rows for one
\* track id, and a request adding a track the playlist already has answers 400
\* and changes no row.
C28_TrackAtMostOnce ==
  /\ [](\A i, j \in 1..Len(playlistTracks) :
          (/\ playlistTracks[i].playlist_id = playlistTracks[j].playlist_id
           /\ playlistTracks[i].track_id = playlistTracks[j].track_id) => i = j)
  /\ [][AddsPresentTrack => plAnswer'.status = 400 /\ TablesUnchanged]_vars

\* the owner's second add of track 1 to playlist 1 was answered 400
C28_Witness ==
  /\ plRequest = PlRequest("add", "u1", 1, 1, FALSE)
  /\ plAnswer.status = 400
  /\ OwnerOf(playlists, 1) = "u1"
  /\ InPlaylist(playlistTracks, 1, 1)
  /\ Len(playlistTracks) = 2

\* C29: whatever add, remove and reorder requests were handled, the rows of
\* one playlist have pairwise distinct positions.
C29_PositionsDistinct ==
  \A i, j \in 1..Len(playlistTracks) :
    (/\ playlistTracks[i].playlist_id = playlistTracks[j].playlist_id
     /\ playlistTracks[i].position = playlistTracks[j].position) => i = j

\* the request handled in this step names a playlist and carries a userCode
\* that is not the one on the playlist's row
ByNonOwner ==
  /\ plRequest'.op \in {"list", "add", "remove", "reorder", "delete"}
  /\ plRequest'.userCode # ""
  /\ plRequest'.userCode # OwnerOf(playlists, plRequest'.playlistId)

\* the body lacks what the route reads before it looks the playlist up
BodyRefused ==
  \/ plRequest'.op = "add" /\ plRequest'.track = 0
  \/ plRequest'.op = "reorder" /\ ~plRequest'.listed

\* C30 as stated: a request naming a playlist with a userCode that does not
\* own it answers 404 and changes no row.
C30_NonOwnerGets404 ==
  [][ByNonOwner => plAnswer'.status = 404 /\ TablesUnchanged]_vars

\* C30: a request naming a playlist with a userCode that does not own it
\* changes no row and is refused: with 400 when it is an add without a track
\* id or a reorder without a trackIds array, with 404 otherwise.
C30_NonOwnerRefused ==
  [][ByNonOwner =>
       /\ TablesUnchanged
       /\ plAnswer'.status = IF BodyRefused THEN 400 ELSE 404]_vars

\* u2 asked to delete playlist 1 of u1, which holds track 1, and got 404
C30_Witness ==
  /\ plRequest = PlRequest("delete", "u2", 1, 0, FALSE)
  /\ plAnswer.status = 404
  /\ OwnerOf(playlists, 1) = "u1"
  /\ InPlaylist(playlistTracks, 1, 1)

====
